---- MODULE Spec2Model ----
(***************************************************************************)
(* A model of literate_notebook.py: the chunk codec that turns a Jupyter   *)
(* notebook (a list of cells) into a marker-delimited python file and      *)
(* back.  Lines of text are TLA+ strings; the regular expressions of the   *)
(* source are spelled out as scans over the characters of a line.          *)
(***************************************************************************)
EXTENDS Integers, Sequences, FiniteSets, TLC

(***************************************************************************)
(* Characters and character classes (ASCII).                               *)
(***************************************************************************)
\* s[i-1:i]: the character at position i (1-based), "" outside the string
At(s, i) == IF i \in 1..Len(s) THEN SubSeq(s, i, i) ELSE ""

\* s[i-1:]
From(s, i) == SubSeq(s, i, Len(s))

UpperCase == "ABCDEFGHIJKLMNOPQRSTUVWXYZ"

LowerCase == "abcdefghijklmnopqrstuvwxyz"

Digits == "0123456789"

Chars(s) == {At(s, i) : i \in 1..Len(s)}

\* [a-zA-Z]
Letters == Chars(UpperCase) \cup Chars(LowerCase)

\* \d
DigitChars == Chars(Digits)

\* \w
WordChars == Letters \cup DigitChars \cup {"_"}

\* \s of the re module, and the characters str.rstrip() strips
SpaceChars == {" ", "\t", "\n", "\r", "\f"}

IsSpace(c) == c \in SpaceChars

IsLetter(c) == c \in Letters

\* The end of the longest run of characters of the class S that starts at
\* position i of s: the first position after the run (i itself when the run
\* is empty).  This is what a greedy  x+  or  x*  matches when what follows
\* it in the pattern cannot start with an x.
RECURSIVE RunEnd(_, _, _)
RunEnd(S, s, i) ==
    IF i <= Len(s) /\ At(s, i) \in S THEN RunEnd(S, s, i + 1) ELSE i

StartsWith(s, p) == Len(s) >= Len(p) /\ SubSeq(s, 1, Len(p)) = p

StartsWithAt(s, i, p) == StartsWith(From(s, i), p)

\* str.casefold() of one character
FoldChar(c) ==
    IF c \in Letters /\ c \notin Chars(LowerCase)
    THEN At(LowerCase, CHOOSE i \in 1..Len(UpperCase) : At(UpperCase, i) = c)
    ELSE c

\* str.casefold()
RECURSIVE casefold(_)
casefold(s) ==
    IF s = "" THEN "" ELSE FoldChar(At(s, 1)) \o casefold(From(s, 2))

\* str.rstrip()
RECURSIVE rstrip(_)
rstrip(s) ==
    IF s # "" /\ IsSpace(At(s, Len(s))) THEN rstrip(SubSeq(s, 1, Len(s) - 1)) ELSE s

\* str(n) for n >= 0
RECURSIVE str(_)
str(n) ==
    IF n < 10 THEN At(Digits, n + 1) ELSE str(n \div 10) \o At(Digits, (n % 10) + 1)

DigitValue(c) == (CHOOSE i \in 1..Len(Digits) : At(Digits, i) = c) - 1

\* int(s) for a non-empty string of digits
RECURSIVE int(_)
int(s) ==
    IF Len(s) = 1 THEN DigitValue(s)
    ELSE 10 * int(SubSeq(s, 1, Len(s) - 1)) + DigitValue(At(s, Len(s)))

\* '#' * n
RECURSIVE Hashes(_)
Hashes(n) == IF n <= 0 THEN "" ELSE "#" \o Hashes(n - 1)

\* Python's None, where the other value is a tuple
None == <<>>

\* What a call that can raise gives: its value, or the exception it raised
Ok(v) == [ok |-> TRUE, value |-> v]

Raise(e) == [ok |-> FALSE, error |-> e]

(***************************************************************************)
(* Cell tags.                                                              *)
(***************************************************************************)
VALID_CELL_TAGS == {"notebook", "module", "test"}

\* A slip: the pattern with the # made optional,  #?\s*([a-zA-Z]+).*
Mutant_REGEX_CELL_TAG_match(line) ==
    LET b == RunEnd(SpaceChars, line, IF StartsWith(line, "#") THEN 2 ELSE 1)
        e == RunEnd(Letters, line, b)
    IN  IF e = b THEN "" ELSE SubSeq(line, b, e - 1)

\* REGEX_CELL_TAG.match(line):  #\s*([a-zA-Z]+).*   anchored at the start of
\* the line.  The value is group 1, which is never empty, or "" when the
\* line does not match (m is None).
REGEX_CELL_TAG_match(line) ==
    IF ~StartsWith(line, "#") THEN ""
    ELSE LET b == RunEnd(SpaceChars, line, 2)
             e == RunEnd(Letters, line, b)
         IN  IF e = b THEN "" ELSE SubSeq(line, b, e - 1)

extract_cell_tag(line) ==
    LET m == REGEX_CELL_TAG_match(line)
    IN  IF m # "" /\ casefold(m) \in VALID_CELL_TAGS THEN casefold(m)
        ELSE "module"

(***************************************************************************)
(* Chunk markers.                                                          *)
(***************************************************************************)
line_length == 80

MarkerPrefix == "#### Cell #"

MarkerType == " Type: "

\* '#' * line_length
HashLine == Hashes(line_length)

make_chunk_marker(num, cell_type) ==
    LET s == MarkerPrefix \o str(num) \o MarkerType \o cell_type \o " "
               \o HashLine
    IN  SubSeq(s, 1, line_length)

\* #+ matches the whole of t: t is one or more # and nothing else.  A t no
\* longer than HashLine is compared with as many of its characters.
RECURSIVE IsHashes(_)
IsHashes(t) ==
    /\ t # ""
    /\ IF Len(t) <= Len(HashLine) THEN t = SubSeq(HashLine, 1, Len(t))
       ELSE /\ SubSeq(t, 1, Len(HashLine)) = HashLine
            /\ IsHashes(From(t, Len(HashLine) + 1))

\* s without the newline that ends it, if one does
Chomp(s) == IF s # "" /\ At(s, Len(s)) = "\n" THEN SubSeq(s, 1, Len(s) - 1) ELSE s

\* REGEX_CHUNK_MARKER.match(line):  #### Cell #(\d+) Type: (\w+) #+$
\* The value is <<int(group 1), group 2>>, or None.  $ matches at the end of
\* the line and before a newline that ends it.
is_chunk_marker(line) ==
    IF ~StartsWith(line, MarkerPrefix) THEN None
    ELSE LET d0 == Len(MarkerPrefix) + 1
             d1 == RunEnd(DigitChars, line, d0)
         IN  IF d1 = d0 \/ ~StartsWithAt(line, d1, MarkerType) THEN None
             ELSE LET w0 == d1 + Len(MarkerType)
                      w1 == RunEnd(WordChars, line, w0)
                  IN  IF w1 = w0 \/ At(line, w1) # " " THEN None
                      ELSE IF ~IsHashes(Chomp(From(line, w1 + 1))) THEN None
                      ELSE <<int(SubSeq(line, d0, d1 - 1)), SubSeq(line, w0, w1 - 1)>>

make_chunk_separator(num, cell_type) ==
    <<"\n", make_chunk_marker(num, cell_type) \o "\n", "">>

add_line(results, line) == Append(results, line \o "\n")

add_lines(results, list_of_lines) ==
    IF Len(list_of_lines) > 0
    THEN Append(results \o SubSeq(list_of_lines, 1, Len(list_of_lines) - 1),
                list_of_lines[Len(list_of_lines)] \o "\n")
    ELSE results

(***************************************************************************)
(* Comments.                                                               *)
(***************************************************************************)
COMMENT_TEXT == "#: "

comment_line(line) == COMMENT_TEXT \o line

\* REGEX_WHITESPACE_ONLY.match(line):  ^\s*$
REGEX_WHITESPACE_ONLY_match(line) == RunEnd(SpaceChars, line, 1) = Len(line) + 1

\* A slip: the whitespace-only line is not let through
Mutant_uncomment_line_strict(line) ==
    IF StartsWith(line, COMMENT_TEXT)
    THEN Ok(From(line, Len(COMMENT_TEXT) + 1))
    ELSE Raise("Exception")

\* A slip: the line without the prefix is let through
Mutant_uncomment_line_lenient(line) ==
    IF StartsWith(line, COMMENT_TEXT)
    THEN Ok(From(line, Len(COMMENT_TEXT) + 1))
    ELSE Ok(line)

uncomment_line(line) ==
    IF REGEX_WHITESPACE_ONLY_match(line) THEN Ok(line)
    ELSE IF StartsWith(line, COMMENT_TEXT)
         THEN Ok(From(line, Len(COMMENT_TEXT) + 1))
         ELSE Raise("Exception")

(***************************************************************************)
(* Notebooks.  A cell is a record with its cell_type and its source, a     *)
(* list of lines; a notebook is its list of cells and `others`, the keys   *)
(* of the notebook besides the cells, as a set of <<key, value>> pairs.    *)
(***************************************************************************)
\* sep.join(xs)
RECURSIVE Join(_, _)
Join(xs, sep) ==
    IF Len(xs) = 0 THEN ""
    ELSE IF Len(xs) = 1 THEN xs[1]
    ELSE xs[1] \o sep \o Join(Tail(xs), sep)

\* The names the import statements bind in the module's namespace.  A name
\* the module reads and nothing binds raises NameError at the read.
Imports == {"os", "json", "it", "re", "logging"}

Bound(name) == name \in Imports

\* The loop variable of a for loop that has not run yet
Unbound == -1

(***************************************************************************)
(* notebook_to_module: the branches of the loop body.                      *)
(***************************************************************************)
TripleQuote == "\"\"\""

\* num == 0 and cell['cell_type'] == 'markdown'
module_docstring(res, cell) ==
    add_line(add_lines(add_line(add_line(res, ""), TripleQuote), cell.source),
             TripleQuote)

\* A slip: the cell with no line taken for a module cell, as add_code_chunk
\* takes it
Mutant_IsModuleCode(cell) ==
    /\ cell.cell_type = "code"
    /\ IF Len(cell.source) = 0 THEN TRUE
       ELSE extract_cell_tag(cell.source[1]) = "module"

IsModuleCode(cell) ==
    /\ cell.cell_type = "code"
    /\ Len(cell.source) > 0
    /\ extract_cell_tag(cell.source[1]) = "module"

\* cell['cell_type'] == 'code', with a source whose tag is module
module_code(res, n, cell, chunks) ==
    add_lines(IF chunks THEN add_lines(res, make_chunk_separator(n, "module"))
              ELSE res,
              cell.source)

(***************************************************************************)
(* notebook_to_roundtrip: the chunks.                                      *)
(***************************************************************************)
\* [comment_line(l) for l in lines]
comment_lines(lines) == [i \in 1..Len(lines) |-> comment_line(lines[i])]

add_markdown_chunk(res, n, cell) ==
    add_lines(add_lines(res, make_chunk_separator(n, "markdown")),
              comment_lines(cell.source))

add_code_chunk(res, n, cell) ==
    LET source == cell.source
        ctag == IF Len(source) = 0 THEN "module" ELSE extract_cell_tag(source[1])
    IN  add_lines(add_lines(res, make_chunk_separator(n, ctag)), source)

\* json.dumps(metadata, indent=2).splitlines(True), for the metadata of the
\* notebooks of the model: no key, or the one key nbformat
json_dumps_lines(metadata) ==
    IF metadata = {} THEN <<"{}">>
    ELSE <<"{\n", "  \"nbformat\": 4\n", "}">>

\* copy.copy reads the name copy, which the module does not import
notebook_metadata(notebook_json) ==
    IF ~Bound("copy") THEN Raise("NameError")
    ELSE Ok(json_dumps_lines(notebook_json.others))

\* The list is extended with the separator before notebook_metadata is
\* called: value is the list when the call returns, res the list when it
\* raises.
add_metadata_chunk(res, n, notebook_json) ==
    LET sep == add_lines(res, make_chunk_separator(n, "metadata"))
        json_of_metadata == notebook_metadata(notebook_json)
    IN  IF json_of_metadata.ok
        THEN [ok |-> TRUE,
              value |-> add_lines(sep, comment_lines(json_of_metadata.value))]
        ELSE [ok |-> FALSE, error |-> json_of_metadata.error, res |-> sep]

(***************************************************************************)
(* notebook_from_roundtrip: the cells and the metadata.                    *)
(***************************************************************************)
\* [uncomment_line(l) for l in lines]
uncomment_lines(lines) ==
    IF \E i \in 1..Len(lines) : ~uncomment_line(lines[i]).ok
    THEN Raise("Exception")
    ELSE Ok([i \in 1..Len(lines) |-> uncomment_line(lines[i]).value])

empty_code_cell ==
    [cell_type |-> "code", execution_count |-> 1, metadata |-> {}, outputs |-> <<>>]

empty_markdown_cell == [cell_type |-> "markdown", metadata |-> {}]

\* lines[1:-1], then the last line rstrip()ped
trim_lines(lines) ==
    LET t == SubSeq(lines, 2, Len(lines) - 1)
    IN  IF Len(t) > 0 THEN [t EXCEPT ![Len(t)] = rstrip(t[Len(t)])] ELSE t

create_jupyter_cell(chunk_type, lines) ==
    IF chunk_type \in {"module", "notebook", "test"}
    THEN Ok(("source" :> trim_lines(lines)) @@ empty_code_cell)
    ELSE IF chunk_type = "markdown"
    THEN LET u == uncomment_lines(lines)
         IN  IF u.ok THEN Ok(("source" :> trim_lines(u.value)) @@ empty_markdown_cell)
             ELSE u
    ELSE Raise("Exception")

\* The whitespace json.loads skips between tokens
IsJsonSpace(c) == c \in {" ", "\t", "\n", "\r"}

RECURSIVE Squeeze(_)
Squeeze(s) ==
    IF s = "" THEN ""
    ELSE IF IsJsonSpace(At(s, 1)) THEN Squeeze(From(s, 2))
    ELSE At(s, 1) \o Squeeze(From(s, 2))

\* json.loads(s), for the texts the lines of the model can make up: the
\* empty object and the object with the one key nbformat, with whitespace
\* between the tokens; every other text of the model is not JSON.
json_loads(s) ==
    LET t == Squeeze(s)
    IN  IF t = "{}" THEN Ok({})
        ELSE IF t = "{\"nbformat\":4}" THEN Ok({<<"nbformat", 4>>})
        ELSE Raise("JSONDecodeError")

extract_metadata(lines) ==
    LET u == uncomment_lines(lines)
    IN  IF u.ok THEN json_loads(Join(u.value, " ")) ELSE u

(***************************************************************************)
(* The state: one call of one entry point, with its arguments, its local   *)
(* variables and where it stands.                                          *)
(***************************************************************************)
VARIABLES
    op,             \* the function called
    pc,             \* where the call stands
    error,          \* the exception that ended the call, "" while there is none
    line,           \* extract_cell_tag, comment_line, uncomment_line: the argument
    result,         \* ... and the value returned
    notebook_json,  \* notebook_to_module, notebook_to_roundtrip: the argument
    use_chunks,     \* notebook_to_module: the argument
    num,            \* the loop variable (encoders), the chunk's number (decoder)
    res,            \* the encoders' list of lines
    file_lines,     \* notebook_from_roundtrip: the lines the iterator gave so far
    marker,         \* notebook_chunks: the marker just found
    ctype,          \* notebook_chunks: the kind of the chunk being read
    chunk_lines,    \* notebook_chunks: the lines of the chunk being read
    yielded,        \* notebook_chunks: the chunks yielded so far
    cells,          \* notebook_from_roundtrip: the cells made so far
    notebook        \* notebook_from_roundtrip: the metadata, then the notebook

vars == <<op, pc, error, line, result, notebook_json, use_chunks, num, res,
          file_lines, marker, ctype, chunk_lines, yielded, cells, notebook>>

linevars == <<line, result>>

encvars == <<notebook_json, use_chunks, num, res>>

decvars == <<file_lines, marker, ctype, chunk_lines, yielded, cells, notebook>>

(***************************************************************************)
(* The arguments of the calls.                                             *)
(***************************************************************************)
MaxCells == 3

MaxLines == 5

SeqsUpTo(S, n) == UNION {[1..k -> S] : k \in 0..n}

\* First lines of code cells
TagLines ==
    {"", "no tag here", "# test something", "test", "#Test1", "# NOTEBOOK\n",
     "#module", "# testing", "#- test", "#", "import os\n", "# \tnotebook x",
     " # test", "#: test"}

\* Lines of markdown, and lines of a python file
CommentLines ==
    {"", "\n", " \t\n", "a", "a b\n", "  indented\n", "# heading\n", "#: a",
     "#: ", "#:", "#:\n", " #: a\n"}

Cells ==
    {[cell_type |-> "markdown", source |-> <<"Title">>],
     [cell_type |-> "markdown", source |-> <<"a  \n", "\n", "#: b">>],
     [cell_type |-> "code", source |-> <<>>],
     [cell_type |-> "code", source |-> <<"x = 1">>],
     [cell_type |-> "code", source |-> <<"# test\n", "assert x == 1 ">>],
     [cell_type |-> "code",
      source |-> <<"y = 2\n", make_chunk_marker(7, "notebook") \o "\n", "z">>],
     [cell_type |-> "raw", source |-> <<"r">>]}

Notebooks == [cells : SeqsUpTo(Cells, MaxCells), others : {{<<"nbformat", 4>>}}]

NoNotebook == [cells |-> <<>>, others |-> {}]

\* The lines of a python file
FileLines ==
    {"\n", "x = 1\n", "#: {\"nbformat\": 4} \n",
     make_chunk_marker(0, "markdown") \o "\n",
     make_chunk_marker(1, "test") \o "\n",
     make_chunk_marker(2, "metadata") \o "\n",
     make_chunk_marker(3, "finish") \o "\n",
     make_chunk_marker(4, "bogus") \o "\n"}

Init ==
    /\ pc = "call"
    /\ error = ""
    /\ result = ""
    /\ num = Unbound /\ res = <<>>
    /\ file_lines = <<>> /\ marker = None /\ ctype = ""
    /\ chunk_lines = <<>> /\ yielded = <<>> /\ cells = <<>> /\ notebook = {}
    /\ \/ /\ op = "extract_cell_tag"
          /\ line \in TagLines
          /\ notebook_json = NoNotebook /\ use_chunks = FALSE
       \/ /\ op \in {"comment_line", "uncomment_line"}
          /\ line \in CommentLines
          /\ notebook_json = NoNotebook /\ use_chunks = FALSE
       \/ /\ op = "notebook_to_module"
          /\ line = ""
          /\ notebook_json \in Notebooks /\ use_chunks \in BOOLEAN
       \/ /\ op = "notebook_to_roundtrip"
          /\ line = ""
          /\ notebook_json \in Notebooks /\ use_chunks = FALSE
       \/ /\ op = "notebook_from_roundtrip"
          /\ line = ""
          /\ notebook_json = NoNotebook /\ use_chunks = FALSE

(***************************************************************************)
(* extract_cell_tag, comment_line, uncomment_line.                         *)
(***************************************************************************)
ExtractCellTag ==
    /\ op = "extract_cell_tag" /\ pc = "call"
    /\ result' = extract_cell_tag(line)
    /\ pc' = "returned"
    /\ UNCHANGED <<op, error, line, encvars, decvars>>

\* comment_line(line)
CommentLine ==
    /\ op = "comment_line" /\ pc = "call"
    /\ result' = comment_line(line)
    /\ pc' = "commented"
    /\ UNCHANGED <<op, error, line, encvars, decvars>>

\* uncomment_line(line), and uncomment_line(comment_line(line))
UncommentLine ==
    /\ \/ op = "uncomment_line" /\ pc = "call"
       \/ op = "comment_line" /\ pc = "commented"
    /\ LET u == uncomment_line(IF op = "uncomment_line" THEN line ELSE result)
       IN  IF u.ok
           THEN result' = u.value /\ pc' = "returned" /\ error' = error
           ELSE result' = "" /\ pc' = "raised" /\ error' = u.error
    /\ UNCHANGED <<op, line, encvars, decvars>>

(***************************************************************************)
(* notebook_to_module.  num + 1 counts the cells the loop has taken.       *)
(***************************************************************************)
HasNext == num + 1 < Len(notebook_json.cells)

NextCell == notebook_json.cells[num + 2]

\* The first cell, when it is markdown: the docstring of the module
ModuleDocstring ==
    /\ op = "notebook_to_module" /\ pc = "call" /\ HasNext
    /\ num + 1 = 0 /\ NextCell.cell_type = "markdown"
    /\ num' = num + 1
    /\ res' = module_docstring(res, NextCell)
    /\ UNCHANGED <<op, pc, error, linevars, notebook_json, use_chunks, decvars>>

\* A code cell tagged module
ModuleCode ==
    /\ op = "notebook_to_module" /\ pc = "call" /\ HasNext
    /\ ~(num + 1 = 0 /\ NextCell.cell_type = "markdown")
    /\ IsModuleCode(NextCell)
    /\ num' = num + 1
    /\ res' = module_code(res, num + 1, NextCell, use_chunks)
    /\ UNCHANGED <<op, pc, error, linevars, notebook_json, use_chunks, decvars>>

\* Every other cell
ModuleSkip ==
    /\ op = "notebook_to_module" /\ pc = "call" /\ HasNext
    /\ ~(num + 1 = 0 /\ NextCell.cell_type = "markdown")
    /\ ~IsModuleCode(NextCell)
    /\ num' = num + 1
    /\ UNCHANGED <<op, pc, error, linevars, notebook_json, use_chunks, res, decvars>>

ModuleReturn ==
    /\ op = "notebook_to_module" /\ pc = "call" /\ ~HasNext
    /\ pc' = "returned"
    /\ UNCHANGED <<op, error, linevars, encvars, decvars>>

(***************************************************************************)
(* notebook_to_roundtrip.                                                  *)
(***************************************************************************)
RoundtripMarkdown ==
    /\ op = "notebook_to_roundtrip" /\ pc = "call" /\ HasNext
    /\ NextCell.cell_type = "markdown"
    /\ num' = num + 1
    /\ res' = add_markdown_chunk(res, num + 1, NextCell)
    /\ UNCHANGED <<op, pc, error, linevars, notebook_json, use_chunks, decvars>>

RoundtripCode ==
    /\ op = "notebook_to_roundtrip" /\ pc = "call" /\ HasNext
    /\ NextCell.cell_type = "code"
    /\ num' = num + 1
    /\ res' = add_code_chunk(res, num + 1, NextCell)
    /\ UNCHANGED <<op, pc, error, linevars, notebook_json, use_chunks, decvars>>

\* The else branch reads the name loggging
RoundtripUnsupported ==
    /\ op = "notebook_to_roundtrip" /\ pc = "call" /\ HasNext
    /\ NextCell.cell_type \notin {"markdown", "code"}
    /\ num' = num + 1
    /\ IF Bound("loggging")
       THEN pc' = pc /\ error' = error
       ELSE pc' = "raised" /\ error' = "NameError"
    /\ UNCHANGED <<op, linevars, notebook_json, use_chunks, res, decvars>>

\* After the loop: the metadata chunk, the finish marker, the return.  With
\* no cell the loop never bound num, and num+1 raises.
RoundtripFinish ==
    /\ op = "notebook_to_roundtrip" /\ pc = "call" /\ ~HasNext
    /\ IF num = Unbound
       THEN pc' = "raised" /\ error' = "UnboundLocalError" /\ res' = res
       ELSE LET m == add_metadata_chunk(res, num + 1, notebook_json)
            IN  IF m.ok
                THEN /\ res' = add_lines(m.value, make_chunk_separator(num + 2, "finish"))
                     /\ pc' = "returned" /\ error' = error
                ELSE /\ res' = m.res
                     /\ pc' = "raised" /\ error' = m.error
    /\ UNCHANGED <<op, linevars, notebook_json, use_chunks, num, decvars>>

(***************************************************************************)
(* notebook_from_roundtrip.  The lines come from an iterator, one at each  *)
(* step, until it is exhausted; file_lines records the lines it gave.      *)
(***************************************************************************)
\* read_to_first_chunk takes a line: a line that is no marker is dropped, the
\* first marker is returned and notebook_chunks starts its chunk
SeekLine ==
    /\ op = "notebook_from_roundtrip" /\ pc = "call"
    /\ Len(file_lines) < MaxLines
    /\ \E l \in FileLines :
          /\ file_lines' = Append(file_lines, l)
          /\ LET m == is_chunk_marker(l)
             IN  IF m # None
                 THEN /\ num' = m[1]
                      /\ ctype' = m[2]
                      /\ chunk_lines' = <<>>
                      /\ pc' = "scan"
                 ELSE UNCHANGED <<num, ctype, chunk_lines, pc>>
    /\ UNCHANGED <<op, error, linevars, notebook_json, use_chunks, res, marker,
                   yielded, cells, notebook>>

\* read_to_first_chunk: the iterator is exhausted and no marker was found
SeekExhausted ==
    /\ op = "notebook_from_roundtrip" /\ pc = "call"
    /\ pc' = "raised"
    /\ error' = "Exception"
    /\ UNCHANGED <<op, linevars, encvars, decvars>>

\* notebook_chunks takes a line: a marker ends the chunk, which is yielded;
\* a line that is no marker joins the chunk
ScanLine ==
    /\ op = "notebook_from_roundtrip" /\ pc = "scan"
    /\ Len(file_lines) < MaxLines
    /\ \E l \in FileLines :
          /\ file_lines' = Append(file_lines, l)
          /\ LET m == is_chunk_marker(l)
             IN  IF m # None
                 THEN /\ marker' = m
                      /\ yielded' = Append(yielded, <<num, ctype, chunk_lines>>)
                      /\ pc' = "yield"
                      /\ UNCHANGED chunk_lines
                 ELSE /\ chunk_lines' = Append(chunk_lines, l)
                      /\ UNCHANGED <<marker, yielded, pc>>
    /\ UNCHANGED <<op, error, linevars, encvars, ctype, cells, notebook>>

\* A slip: the lines of the chunk yielded are kept for the next chunk
Mutant_StartChunk ==
    /\ chunk_lines' = chunk_lines
    /\ num' = marker[1]
    /\ ctype' = marker[2]
    /\ marker' = None
    /\ pc' = "scan"

\* notebook_chunks, resumed after a yield: the next chunk starts
StartChunk ==
    /\ chunk_lines' = <<>>
    /\ num' = marker[1]
    /\ ctype' = marker[2]
    /\ marker' = None
    /\ pc' = "scan"

\* notebook_from_roundtrip: a chunk that makes a cell
DispatchCell ==
    /\ op = "notebook_from_roundtrip" /\ pc = "yield"
    /\ ctype \in {"module", "notebook", "test", "markdown"}
    /\ LET c == create_jupyter_cell(ctype, chunk_lines)
       IN  IF c.ok
           THEN /\ cells' = Append(cells, c.value)
                /\ error' = error
                /\ StartChunk
           ELSE /\ pc' = "raised"
                /\ error' = c.error
                /\ UNCHANGED <<cells, marker, num, ctype, chunk_lines>>
    /\ UNCHANGED <<op, linevars, notebook_json, use_chunks, res, file_lines,
                   yielded, notebook>>

\* notebook_from_roundtrip: the metadata chunk
DispatchMetadata ==
    /\ op = "notebook_from_roundtrip" /\ pc = "yield"
    /\ ctype \notin {"module", "notebook", "test", "markdown"}
    /\ ctype = "metadata"
    /\ LET m == extract_metadata(chunk_lines)
       IN  IF m.ok
           THEN /\ notebook' = m.value
                /\ error' = error
                /\ StartChunk
           ELSE /\ pc' = "raised"
                /\ error' = m.error
                /\ UNCHANGED <<notebook, marker, num, ctype, chunk_lines>>
    /\ UNCHANGED <<op, linevars, notebook_json, use_chunks, res, file_lines,
                   yielded, cells>>

\* notebook_from_roundtrip: a chunk of any other kind falls through the
\* if and the elif
DispatchOther ==
    /\ op = "notebook_from_roundtrip" /\ pc = "yield"
    /\ ctype \notin {"module", "notebook", "test", "markdown"}
    /\ ctype # "metadata"
    /\ StartChunk
    /\ UNCHANGED <<op, error, linevars, notebook_json, use_chunks, res,
                   file_lines, yielded, cells, notebook>>

\* The iterator is exhausted: notebook_chunks ends without a yield, and
\* notebook_from_roundtrip returns the notebook with its cells
ScanExhausted ==
    /\ op = "notebook_from_roundtrip" /\ pc = "scan"
    /\ pc' = "returned"
    /\ UNCHANGED <<op, error, linevars, encvars, decvars>>

Next ==
    \/ ExtractCellTag
    \/ CommentLine
    \/ UncommentLine
    \/ ModuleDocstring
    \/ ModuleCode
    \/ ModuleSkip
    \/ ModuleReturn
    \/ RoundtripMarkdown
    \/ RoundtripCode
    \/ RoundtripUnsupported
    \/ RoundtripFinish
    \/ SeekLine
    \/ SeekExhausted
    \/ ScanLine
    \/ DispatchCell
    \/ DispatchMetadata
    \/ DispatchOther
    \/ ScanExhausted

Spec == Init /\ [][Next]_vars

\* The notebook notebook_from_roundtrip returns
Returned == [cells |-> cells, others |-> notebook]

Terminal == pc \in {"returned", "raised"}

(***************************************************************************)
(* notebook_from_roundtrip as a function of the whole list of lines: the   *)
(* chunks notebook_chunks yields are the stretches between one marker and  *)
(* the next, and the notebook is made of them in their order.              *)
(***************************************************************************)
MarkerPositions(lines) ==
    {i \in 1..Len(lines) : is_chunk_marker(lines[i]) # None}

RECURSIVE Sorted(_)
Sorted(S) ==
    IF S = {} THEN <<>>
    ELSE LET m == CHOOSE x \in S : \A y \in S : x <= y
         IN  <<m>> \o Sorted(S \ {m})

\* The chunks between a marker and the next marker
notebook_chunks(lines) ==
    LET p == Sorted(MarkerPositions(lines))
    IN  [k \in 1..(Len(p) - 1) |->
            LET m == is_chunk_marker(lines[p[k]])
            IN  <<m[1], m[2], SubSeq(lines, p[k] + 1, p[k + 1] - 1)>>]

\* The loop of notebook_from_roundtrip over the chunks from the k-th on
RECURSIVE dispatch(_, _, _, _)
dispatch(chunks, k, cs, nb) ==
    IF k > Len(chunks) THEN Ok([cells |-> cs, others |-> nb])
    ELSE LET kind == chunks[k][2]
             body == chunks[k][3]
         IN  IF kind \in {"module", "notebook", "test", "markdown"}
             THEN LET c == create_jupyter_cell(kind, body)
                  IN  IF c.ok THEN dispatch(chunks, k + 1, Append(cs, c.value), nb)
                      ELSE c
             ELSE IF kind = "metadata"
             THEN LET m == extract_metadata(body)
                  IN  IF m.ok THEN dispatch(chunks, k + 1, cs, m.value) ELSE m
             ELSE dispatch(chunks, k + 1, cs, nb)

notebook_from_roundtrip(lines) ==
    IF MarkerPositions(lines) = {} THEN Raise("Exception")
    ELSE dispatch(notebook_chunks(lines), 1, <<>>, {})

\* The steps of notebook_from_roundtrip and the function agree
StepsAgree ==
    op = "notebook_from_roundtrip" =>
        /\ pc = "returned" => notebook_from_roundtrip(file_lines) = Ok(Returned)
        /\ pc = "raised" => notebook_from_roundtrip(file_lines) = Raise(error)

(***************************************************************************)
(* The claims.                                                             *)
(***************************************************************************)
WhitespaceOnly(l) == \A i \in 1..Len(l) : IsSpace(At(l, i))

\* The characters of l at the positions i to j that l has
Slice(l, i, j) == SubSeq(l, i, IF j > Len(l) THEN Len(l) ELSE j)

\* The line is a #, whitespace, and then the word w in any case, ended by
\* the end of the line or by a character that is no letter
TaggedWith(l, w) ==
    /\ StartsWith(l, "#")
    /\ \E b \in 2..Len(l) :
          /\ WhitespaceOnly(SubSeq(l, 2, b - 1))
          /\ casefold(Slice(l, b, b + Len(w) - 1)) = w
          /\ ~IsLetter(At(l, b + Len(w)))

\* What claim C8 says of a line: the first run of letters after an optional
\* marker character, when it is a tag in any case, and module otherwise
ClaimedTag(l) ==
    LET a == IF StartsWith(l, "#") THEN RunEnd(SpaceChars, l, 2) ELSE 1
        w == casefold(SubSeq(l, a, RunEnd(Letters, l, a) - 1))
    IN  IF w \in VALID_CELL_TAGS THEN w ELSE "module"

\* C8 as stated: extract_cell_tag returns the first word of the line when it
\* is a tag, whether or not a marker character comes before the word.
C8_Original ==
    (op = "extract_cell_tag" /\ pc = "returned") => result = ClaimedTag(line)

\* C8, amended: extract_cell_tag never fails and returns a tag of {module,
\* notebook, test}: the tag w when the line is a #, whitespace if any, and
\* the word w in any case; module in every other case, a line that does not
\* start with # among them.
C8_TagClassifier ==
    (op = "extract_cell_tag" /\ Terminal) =>
        /\ pc = "returned"
        /\ result \in VALID_CELL_TAGS
        /\ \A w \in VALID_CELL_TAGS : TaggedWith(line, w) => result = w
        /\ (\A w \in VALID_CELL_TAGS : ~TaggedWith(line, w)) => result = "module"
        /\ line \in {"no tag here", ""} => result = "module"
        /\ line = "# test something" => result = "test"

C8_Witness ==
    /\ op = "extract_cell_tag" /\ pc = "returned"
    /\ line = "#Test1" /\ result = "test"

\* C9 as stated: uncomment_line undoes comment_line on a line that does not
\* start with the comment prefix, and both comment_line and uncomment_line
\* leave a whitespace-only line as it is.
C9_Original ==
    /\ (op = "comment_line" /\ Terminal /\ ~StartsWith(line, COMMENT_TEXT)) =>
            (pc = "returned" /\ result = line)
    /\ (op = "comment_line" /\ pc = "commented" /\ WhitespaceOnly(line)) =>
            result = line
    /\ (op = "uncomment_line" /\ Terminal /\ WhitespaceOnly(line)) =>
            (pc = "returned" /\ result = line)

\* C9, amended: uncomment_line undoes comment_line on every line, and
\* uncomment_line leaves a whitespace-only line as it is; comment_line does
\* not: it puts the prefix before every line, so a blank line of a markdown
\* cell is the prefix and the blank line in the stream.
C9_CommentCodec ==
    /\ (op = "comment_line" /\ Terminal) => (pc = "returned" /\ result = line)
    /\ (op = "comment_line" /\ pc = "commented") =>
            /\ result # line
            /\ Len(result) = Len(line) + 3
            /\ SubSeq(result, 1, 3) = "#: "
            /\ SubSeq(result, 4, Len(result)) = line
    /\ (op = "uncomment_line" /\ Terminal /\ WhitespaceOnly(line)) =>
            (pc = "returned" /\ result = line)

C9_Witness ==
    /\ op = "comment_line" /\ pc = "returned"
    /\ line = " \t\n" /\ result = line

\* The lines of a cell as a file holds them: the last one ended by a newline
Terminated(source) ==
    [i \in 1..Len(source) |->
        IF i = Len(source) THEN source[i] \o "\n" ELSE source[i]]

\* The tag of a code cell: that of its first line, module when it has none
Tag(cell) ==
    IF Len(cell.source) = 0 THEN "module" ELSE extract_cell_tag(cell.source[1])

\* What the cell at position i gives the module: the description, for a
\* markdown cell at position 0; its lines, after its marker if markers are
\* asked for, for a code cell tagged module; nothing for any other cell.
\* empty_too says whether a code cell with no line counts as tagged module.
ModuleLinesOf(i, cell, chunks, empty_too) ==
    IF i = 0 /\ cell.cell_type = "markdown"
    THEN <<"\n", TripleQuote \o "\n">> \o Terminated(cell.source)
           \o <<TripleQuote \o "\n">>
    ELSE IF /\ cell.cell_type = "code"
            /\ Tag(cell) = "module"
            /\ (empty_too \/ Len(cell.source) > 0)
    THEN (IF chunks THEN <<"\n", make_chunk_marker(i, "module") \o "\n", "\n">>
          ELSE <<>>) \o Terminated(cell.source)
    ELSE <<>>

\* ... and what the cells from position i on give it
RECURSIVE ModuleLinesFrom(_, _, _, _)
ModuleLinesFrom(cs, i, chunks, empty_too) ==
    IF i >= Len(cs) THEN <<>>
    ELSE ModuleLinesOf(i, cs[i + 1], chunks, empty_too)
           \o ModuleLinesFrom(cs, i + 1, chunks, empty_too)

\* C7 as stated: notebook_to_module never fails and returns the description
\* followed by the lines of every code cell tagged module, an empty code cell
\* among them, each after its marker when use_chunks is true.
C7_Original ==
    (op = "notebook_to_module" /\ Terminal) =>
        /\ pc = "returned"
        /\ res = ModuleLinesFrom(notebook_json.cells, 0, use_chunks, TRUE)

\* C7, amended: notebook_to_module never fails and returns the description
\* (only if cell 0 is markdown) followed by, for every code cell that has at
\* least one line and whose first line is tagged module, and only those, in
\* their order, the lines of the cell (the last one ended by a newline), after
\* the marker with the position of the cell when use_chunks is true and after
\* no marker when it is false; a code cell with no line gives nothing, not
\* even its marker.
C7_ModuleProjector ==
    (op = "notebook_to_module" /\ Terminal) =>
        /\ pc = "returned"
        /\ res = ModuleLinesFrom(notebook_json.cells, 0, use_chunks, FALSE)

C7_Witness ==
    /\ op = "notebook_to_module" /\ pc = "returned" /\ use_chunks
    /\ Len(notebook_json.cells) = 3
    /\ notebook_json.cells[1].cell_type = "markdown"
    /\ notebook_json.cells[2] = [cell_type |-> "code", source |-> <<>>]
    /\ notebook_json.cells[3] = [cell_type |-> "code", source |-> <<"x = 1">>]
    /\ is_chunk_marker(res[Len(res) - 2]) = <<2, "module">>
    /\ res[Len(res)] = "x = 1\n"

\* A line uncomment_line has no answer for: not blank, and without the prefix
Malformed(l) == ~WhitespaceOnly(l) /\ ~StartsWith(l, COMMENT_TEXT)

\* The stretch of lines after the last marker: the chunk still open
OpenChunk(lines) ==
    LET p == Sorted(MarkerPositions(lines))
        m == is_chunk_marker(lines[p[Len(p)]])
    IN  <<m[1], m[2], SubSeq(lines, p[Len(p)] + 1, Len(lines))>>

\* The chunks of the lines, the open one among them
AllChunks(lines) ==
    IF MarkerPositions(lines) = {} THEN <<>>
    ELSE Append(notebook_chunks(lines), OpenChunk(lines))

HasMalformed(chunk) ==
    /\ chunk[2] \in {"markdown", "metadata"}
    /\ \E i \in 1..Len(chunk[3]) : Malformed(chunk[3][i])

\* C10: the pass of notebook_chunks over lines with m >= 1 markers yields, in
\* their order and once each, the m - 1 chunks that a later marker closes,
\* each with the number and kind of its marker and the lines between that
\* marker and the next; the lines before the first marker are dropped; the
\* chunk open when the lines end is not yielded and makes no cell; and lines
\* with no marker end the pass with an exception.
C10_ScannerDispatch ==
    op = "notebook_from_roundtrip" =>
        /\ pc = "call" => (MarkerPositions(file_lines) = {} /\ yielded = <<>>)
        /\ Terminal =>
              LET n == Cardinality(MarkerPositions(file_lines))
              IN  /\ yielded = notebook_chunks(file_lines)
                  /\ Len(yielded) = IF n = 0 THEN 0 ELSE n - 1
                  /\ Len(cells) <= Len(yielded)
                  /\ pc = "returned" =>
                        /\ n >= 1
                        /\ Len(cells) = Cardinality({k \in 1..Len(yielded) :
                              yielded[k][2] \in
                                  {"module", "notebook", "test", "markdown"}})
                  /\ n = 0 => (pc = "raised" /\ error = "Exception")

C10_Witness ==
    /\ op = "notebook_from_roundtrip" /\ pc = "returned"
    /\ is_chunk_marker(file_lines[1]) = None
    /\ Len(yielded) = 2
    /\ yielded[1] = <<1, "test", <<"x = 1\n">>>>
    /\ Cardinality(MarkerPositions(file_lines)) = 3
    /\ Len(cells) >= 1

ChunkKinds == {"module", "notebook", "test", "markdown", "metadata", "finish"}

\* C4: when a chunk of a kind outside {module, notebook, test, markdown,
\* metadata, finish} is dispatched, notebook_from_roundtrip raises and returns
\* no notebook: a notebook is returned only when every chunk dispatched was of
\* one of these kinds.
C4_UnknownChunkKind ==
    (op = "notebook_from_roundtrip" /\ pc = "returned") =>
        \A k \in 1..Len(yielded) : yielded[k][2] \in ChunkKinds

\* The numbers and kinds of the marker lines of the lines, in their order
MarkerHeaders(lines) ==
    LET p == Sorted(MarkerPositions(lines))
    IN  [k \in 1..Len(p) |-> is_chunk_marker(lines[p[k]])]

Supported(cell) == cell.cell_type \in {"markdown", "code"}

\* The kind of the chunk of a cell
KindOf(cell) == IF cell.cell_type = "markdown" THEN "markdown" ELSE Tag(cell)

\* C5: notebook_to_roundtrip of a notebook with a cell that is neither
\* markdown nor code does not abort: it returns the lines, with the chunk of
\* every other cell, the metadata chunk and the finish chunk.
C5_UnsupportedSkipped ==
    (/\ op = "notebook_to_roundtrip" /\ Terminal
     /\ \E i \in 1..Len(notebook_json.cells) : ~Supported(notebook_json.cells[i])) =>
        /\ pc = "returned"
        /\ LET h == MarkerHeaders(res)
               hs == {h[k] : k \in 1..Len(h)}
               cs == notebook_json.cells
           IN  /\ \A i \in 1..Len(cs) : Supported(cs[i]) => <<i - 1, KindOf(cs[i])>> \in hs
               /\ \E k \in 1..Len(h) : h[k][2] = "metadata"
               /\ h[Len(h)][2] = "finish"

\* C3: for every notebook, of N cells, the marker lines of the lines
\* notebook_to_roundtrip returns carry the numbers 0, 1, ..., N+1 in this
\* order; the marker N is the one metadata marker, the marker N+1 the finish
\* marker.
C3_MonotonicIndices ==
    (op = "notebook_to_roundtrip" /\ Terminal) =>
        /\ pc = "returned"
        /\ LET h == MarkerHeaders(res)
               N == Len(notebook_json.cells)
           IN  /\ Len(h) = N + 2
               /\ \A k \in 1..Len(h) : h[k][1] = k - 1
               /\ \A k \in 1..Len(h) : h[k][2] = "metadata" <=> k = N + 1
               /\ h[N + 2][2] = "finish"

\* The cells cs and the cells rs are as many, of the same kinds and tags in
\* the same order, with the same lines but for the whitespace that ends the
\* last line of a cell
SameCells(cs, rs) ==
    /\ Len(rs) = Len(cs)
    /\ \A i \in 1..Len(cs) :
          /\ rs[i].cell_type = cs[i].cell_type
          /\ rs[i].cell_type = "code" => Tag(rs[i]) = Tag(cs[i])
          /\ Len(rs[i].source) = Len(cs[i].source)
          /\ \A j \in 1..Len(cs[i].source) :
                IF j < Len(cs[i].source) THEN rs[i].source[j] = cs[i].source[j]
                ELSE rstrip(rs[i].source[j]) = rstrip(cs[i].source[j])

\* C1: for a notebook of one cell or more, each markdown or code,
\* notebook_from_roundtrip(notebook_to_roundtrip(notebook)) returns a notebook
\* with as many cells, of the same kinds and tags in the same order, with the
\* same lines but for the whitespace that ends the last line of a cell.
C1_RoundTrip ==
    (/\ op = "notebook_to_roundtrip" /\ Terminal
     /\ Len(notebook_json.cells) >= 1
     /\ \A i \in 1..Len(notebook_json.cells) : Supported(notebook_json.cells[i])) =>
        /\ pc = "returned"
        /\ LET back == notebook_from_roundtrip(res)
           IN  back.ok /\ SameCells(notebook_json.cells, back.value.cells)
====
